---- MODULE Spec2Model ----
(***************************************************************************)
(* Model of insert_multiple: Inserter (src/src/lib.rs), the streaming      *)
(* splice engine that copies an origin reader to a target writer while     *)
(* emitting the registered insertions at their byte offsets.               *)
(*                                                                         *)
(* One step of the model is one call the engine makes on a producer (read) *)
(* or on the sink (write_all), together with the control flow that follows *)
(* it up to the next such call.                                            *)
(***************************************************************************)
EXTENDS Integers, Sequences, FiniteSets, TLC

\* ---------------------------------------------------------------- bounds
MaxOrigin == 2      \* longest origin, in bytes
MaxInserts == 2     \* most insert calls before execute
MaxInsLen == 2      \* longest insertion source, in bytes
MaxPos == MaxOrigin + 1   \* largest insertion offset: reaches past the end

\* lib.rs:7
BUFFER_SIZE == 1024

VARIABLES
    origin,       \* bytes the origin reader holds (self.origin)
    opos,         \* bytes of the origin already delivered by its read calls
    insertions,   \* self.insertions: BTreeMap offset -> bytes of the source
    registered,   \* history: the insert calls, in call order
    pc,           \* "build" | "gap" | "emit" | "tail" | "done" | "failed"
    insert_idx,   \* key of the map entry the for loop is at
    ipos,         \* bytes of the current to_insert already delivered
    input_index,  \* execute's input_index
    written,      \* the slice &buffer[..bytes_read] waiting for write_all
    target,       \* bytes the sink has accepted (self.target)
    result,       \* "none" | "Ok" | the io::Error execute returned
    raised,       \* history: the io::Error a producer or the sink raised
    outcome,      \* history: what the last read or write_all call returned
    touched,      \* history: the producers a read was issued on: the origin,
                  \* and the insertions by key
    short,        \* history: some read returned less than it could have
    interrupted,  \* history: some read returned Interrupted
    drained,      \* history: the origin returned Ok(0) in the gap loop
    text_origin,      \* StringInserter.origin, as codepoints
    text_insertions,  \* StringInserter.insertions: Vec of (position, text)
    text_result       \* what StringInserter::execute returned

vars == <<origin, opos, insertions, registered, pc, insert_idx, ipos,
          input_index, written, target, result, raised, outcome, touched,
          short, interrupted, drained, text_origin, text_insertions,
          text_result>>

\* the fields of StringInserter and the value its execute returns
textVars == <<text_origin, text_insertions, text_result>>

\* ---------------------------------------------------------------- helpers
Min(a, b) == IF a < b THEN a ELSE b

Max(a, b) == IF a > b THEN a ELSE b

MinOf(S) == CHOOSE x \in S : \A y \in S : x <= y

Drop(s, n) == SubSeq(s, n + 1, Len(s))

\* ---------------------------------------------------------------- inputs
\* The engine never inspects a byte, so an input is told by its length; every
\* byte of a run is given its own value, which lets a sink byte be traced back
\* to the producer and the index it came from.
OriginOf(len) == [i \in 1..len |-> i]

SourceOf(call, len) == [i \in 1..len |-> 16 * call + i]

Origins == {OriginOf(len) : len \in 0..MaxOrigin}

Sources(call) == {SourceOf(call, len) : len \in 0..MaxInsLen}

Positions == 0..MaxPos

NoKey == 0 - 1

EmptyMap == [k \in {} |-> <<>>]

\* ---------------------------------------------------------------- BTreeMap
\* mutant of BTreeInsert: a schedule that keeps ascending registrations only,
\* an insert drops the entries at greater offsets
BTreeInsertAscending(map, position, source) ==
    [k \in {j \in DOMAIN map : j < position} \cup {position} |->
        IF k = position THEN source ELSE map[k]]

\* BTreeMap::insert: one value per key, a second insert at a key replaces
\* the value held there.
BTreeInsert(map, position, source) ==
    [k \in (DOMAIN map) \cup {position} |->
        IF k = position THEN source ELSE map[k]]

\* the keys iter_mut has still to yield after key k
KeysAfter(map, k) == {x \in DOMAIN map : x > k}

\* ---------------------------------------------------------------- producers
\* std::io::Read on a producer holding `data` with `pos` bytes delivered, asked
\* for at most `limit` bytes: the counts a successful read may return.
\* Short reads are legal; 0 is returned only at the end of the data.
ReadCounts(data, pos, limit) == 1..Min(Len(data) - pos, limit)

AtEof(data, pos) == pos >= Len(data)

\* what a read of `n` bytes could have returned at most
FullCount(data, pos, limit) == Min(Len(data) - pos, limit)

IoErrors == {"OriginReadError", "InsertionReadError", "WriteError"}

\* ---------------------------------------------------------------- control
\* lib.rs:42, the guard of `while input_index < insert_idx`: copy from the
\* origin while the offset is not reached, else go on to the insertion loop.
WhileCheck(idx, key) == IF idx < key THEN "gap" ELSE "emit"

\* mutant of ForNext: the tail loop is forgotten
ForNextNoTail(map, key, idx) ==
    IF KeysAfter(map, key) = {}
    THEN [pc |-> "done", key |-> key]
    ELSE LET next == MinOf(KeysAfter(map, key))
         IN  [pc |-> WhileCheck(idx, next), key |-> next]

\* lib.rs:39 and 79: the for loop moves to the next entry of the map in key
\* order; when none is left, execute goes on to the tail loop.
ForNext(map, key, idx) ==
    IF KeysAfter(map, key) = {}
    THEN [pc |-> "tail", key |-> key]
    ELSE LET next == MinOf(KeysAfter(map, key))
         IN  [pc |-> WhileCheck(idx, next), key |-> next]

\* mutant of GapLimit: the read is not bounded by take(remaining_bytes)
GapLimitNoTake(idx, key) == BUFFER_SIZE

\* mutant of GapLimit: the read is bounded by take alone, not by the buffer
GapLimitUnbuffered(idx, key) == key - idx

\* lib.rs:43-45: origin.by_ref().take(remaining_bytes).read(&mut buffer)
\* delivers at most remaining_bytes, and at most one buffer.
GapLimit(idx, key) == Min(key - idx, BUFFER_SIZE)

\* mutant of Written: the slice is one byte short
WrittenOffByOne(data, pos, n) == SubSeq(data, pos + 1, pos + n - 1)

\* lib.rs:48, 66, 83: `written = &buffer[..bytes_read]`, the bytes this read
\* put in the buffer: the n bytes of `data` that follow the first `pos`.
Written(data, pos, n) == SubSeq(data, pos + 1, pos + n)

\* mutant of IndexAfterInsertRead: insertion bytes are counted as origin bytes
IndexAfterInsertReadAdvancing(idx, n) == idx + n

\* lib.rs:61-68: the insertion loop leaves input_index alone.
IndexAfterInsertRead(idx, n) == idx

\* mutant of OnGapEof: an origin shorter than the offset ends the schedule
OnGapEofSkips == [pc |-> "tail", result |-> result]

\* mutant of OnGapEof: an origin shorter than the offset is an error
OnGapEofFails == [pc |-> "failed", result |-> "UnexpectedEof"]

\* lib.rs:46: Ok(0) in the gap loop breaks out to the insertion loop.
OnGapEof == [pc |-> "emit", result |-> result]

\* lib.rs:81 and 93: Ok(0) in the tail loop ends execute with Ok(()).
OnTailEof == [pc |-> "done", result |-> "Ok"]

\* mutant of OnInterrupted: a retry cap, the second Interrupted in a row is
\* returned
OnInterruptedCapped ==
    IF outcome = "Interrupted"
    THEN [pc |-> "failed", result |-> "Interrupted"]
    ELSE [pc |-> pc, result |-> result]

\* mutant of OnInterrupted: the ErrorKind::Interrupted guard is missing
OnInterruptedFails == [pc |-> "failed", result |-> "Interrupted"]

\* lib.rs:52-54, 69-71, 86-88: Interrupted is retried, the loop goes round.
OnInterrupted == [pc |-> pc, result |-> result]

\* mutant of OnReadError: the error is swallowed and the read reissued
OnReadErrorRetry(e) == [pc |-> pc, result |-> result]

\* lib.rs:55, 72, 89: any other read error is returned at once.
OnReadError(e) == [pc |-> "failed", result |-> e]

\* lib.rs:50, 67, 84: `write_all(written)?` returns the sink's error at once.
OnWriteError(e) == [pc |-> "failed", result |-> e]

\* the producer a read is issued on: none yet, the origin (lib.rs:45, 82), or
\* the insertion of the entry the for loop is at (lib.rs:63)
NoRead == [from |-> "none", key |-> NoKey]

OriginRead == [from |-> "origin", key |-> NoKey]

InsertionRead(key) == [from |-> "insertion", key |-> key]

\* string_inserter.rs:47: the value of StringInserter::execute before it has
\* returned
NoText == [kind |-> "none", text |-> <<>>]

\* ---------------------------------------------------------------- actions
Init ==
    /\ origin \in Origins
    /\ opos = 0
    /\ insertions = EmptyMap
    /\ registered = <<>>
    /\ pc = "build"
    /\ insert_idx = NoKey
    /\ ipos = 0
    /\ input_index = 0
    /\ written = <<>>
    /\ target = <<>>
    /\ result = "none"
    /\ raised = "none"
    /\ outcome = "none"
    /\ touched = [origin |-> FALSE, keys |-> {}, last |-> NoRead]
    /\ short = FALSE
    /\ interrupted = FALSE
    /\ drained = FALSE
    /\ text_origin = <<>>
    /\ text_insertions = <<>>
    /\ text_result = NoText

\* lib.rs:31-34
Insert(position, source) ==
    /\ pc = "build"
    /\ Len(registered) < MaxInserts
    /\ insertions' = BTreeInsert(insertions, position, source)
    /\ registered' = Append(registered, [position |-> position, source |-> source])
    /\ UNCHANGED <<origin, opos, pc, insert_idx, ipos, input_index, written,
                   target, result, raised, outcome, touched, short, interrupted,
                   drained>>
    /\ UNCHANGED textVars

\* lib.rs:36-39: execute starts, input_index = 0, the for loop takes the first
\* entry of the map.
Execute ==
    /\ pc = "build"
    /\ input_index' = 0
    /\ LET go == ForNext(insertions, NoKey, 0)
       IN  pc' = go.pc /\ insert_idx' = go.key
    /\ ipos' = 0
    /\ UNCHANGED <<origin, opos, insertions, registered, written, target,
                   result, raised, outcome, touched, short, interrupted,
                   drained>>
    /\ UNCHANGED textVars

\* lib.rs:42-57: one read of the gap loop.
GapRead ==
    /\ pc = "gap"
    /\ written = <<>>
    /\ touched' = [touched EXCEPT !.origin = TRUE, !.last = OriginRead]
    /\ \/ \E n \in ReadCounts(origin, opos, GapLimit(input_index, insert_idx)) :
            /\ written' = Written(origin, opos, n)
            /\ opos' = opos + n
            /\ input_index' = input_index + n
            /\ outcome' = "Got"
            /\ short' = (short \/ n < FullCount(origin, opos, GapLimit(input_index, insert_idx)))
            /\ UNCHANGED <<pc, result, raised, interrupted, drained>>
       \/ /\ AtEof(origin, opos)
          /\ pc' = OnGapEof.pc
          /\ result' = OnGapEof.result
          /\ outcome' = "Eof"
          /\ drained' = TRUE
          /\ UNCHANGED <<written, opos, input_index, raised, short, interrupted>>
       \/ /\ pc' = OnInterrupted.pc
          /\ result' = OnInterrupted.result
          /\ outcome' = "Interrupted"
          /\ interrupted' = TRUE
          /\ UNCHANGED <<written, opos, input_index, raised, short, drained>>
       \/ /\ pc' = OnReadError("OriginReadError").pc
          /\ result' = OnReadError("OriginReadError").result
          /\ raised' = "OriginReadError"
          /\ outcome' = "Failed"
          /\ UNCHANGED <<written, opos, input_index, short, interrupted, drained>>
    /\ UNCHANGED <<origin, insertions, registered, insert_idx, ipos, target>>
    /\ UNCHANGED textVars

\* lib.rs:62-74: one read of the insertion loop; on Ok(0) the for loop moves on.
EmitRead ==
    /\ pc = "emit"
    /\ written = <<>>
    /\ touched' = [touched EXCEPT !.keys = @ \cup {insert_idx},
                                !.last = InsertionRead(insert_idx)]
    /\ \/ \E n \in ReadCounts(insertions[insert_idx], ipos, BUFFER_SIZE) :
            /\ written' = Written(insertions[insert_idx], ipos, n)
            /\ ipos' = ipos + n
            /\ input_index' = IndexAfterInsertRead(input_index, n)
            /\ outcome' = "Got"
            /\ short' = (short \/ n < FullCount(insertions[insert_idx], ipos, BUFFER_SIZE))
            /\ UNCHANGED <<pc, insert_idx, result, raised, interrupted>>
       \/ /\ AtEof(insertions[insert_idx], ipos)
          /\ LET go == ForNext(insertions, insert_idx, input_index)
             IN  pc' = go.pc /\ insert_idx' = go.key
          /\ ipos' = 0
          /\ outcome' = "Eof"
          /\ UNCHANGED <<written, input_index, result, raised, short, interrupted>>
       \/ /\ pc' = OnInterrupted.pc
          /\ result' = OnInterrupted.result
          /\ outcome' = "Interrupted"
          /\ interrupted' = TRUE
          /\ UNCHANGED <<written, ipos, input_index, insert_idx, raised, short>>
       \/ /\ pc' = OnReadError("InsertionReadError").pc
          /\ result' = OnReadError("InsertionReadError").result
          /\ raised' = "InsertionReadError"
          /\ outcome' = "Failed"
          /\ UNCHANGED <<written, ipos, input_index, insert_idx, short, interrupted>>
    /\ UNCHANGED <<origin, opos, insertions, registered, target, drained>>
    /\ UNCHANGED textVars

\* lib.rs:79-93: one read of the tail loop.
TailRead ==
    /\ pc = "tail"
    /\ written = <<>>
    /\ touched' = [touched EXCEPT !.origin = TRUE, !.last = OriginRead]
    /\ \/ \E n \in ReadCounts(origin, opos, BUFFER_SIZE) :
            /\ written' = Written(origin, opos, n)
            /\ opos' = opos + n
            /\ outcome' = "Got"
            /\ short' = (short \/ n < FullCount(origin, opos, BUFFER_SIZE))
            /\ UNCHANGED <<pc, result, raised, interrupted>>
       \/ /\ AtEof(origin, opos)
          /\ pc' = OnTailEof.pc
          /\ result' = OnTailEof.result
          /\ outcome' = "Eof"
          /\ UNCHANGED <<written, opos, raised, short, interrupted>>
       \/ /\ pc' = OnInterrupted.pc
          /\ result' = OnInterrupted.result
          /\ outcome' = "Interrupted"
          /\ interrupted' = TRUE
          /\ UNCHANGED <<written, opos, raised, short>>
       \/ /\ pc' = OnReadError("OriginReadError").pc
          /\ result' = OnReadError("OriginReadError").result
          /\ raised' = "OriginReadError"
          /\ outcome' = "Failed"
          /\ UNCHANGED <<written, opos, short, interrupted>>
    /\ UNCHANGED <<origin, insertions, registered, insert_idx, ipos,
                   input_index, target, drained>>
    /\ UNCHANGED textVars

\* lib.rs:50, 67, 84: write_all(written). It hands the slice to the sink until
\* all of it is accepted; when the sink fails, the bytes it accepted before
\* failing stay in it and the error is returned.
Write ==
    /\ pc \in {"gap", "emit", "tail"}
    /\ written # <<>>
    /\ \/ /\ target' = target \o written
          /\ pc' = IF pc = "gap" THEN WhileCheck(input_index, insert_idx) ELSE pc
          /\ outcome' = "Written"
          /\ UNCHANGED <<result, raised>>
       \/ \E k \in 0..(Len(written) - 1) :
            /\ target' = target \o SubSeq(written, 1, k)
            /\ pc' = OnWriteError("WriteError").pc
            /\ result' = OnWriteError("WriteError").result
            /\ raised' = "WriteError"
            /\ outcome' = "WriteFailed"
    /\ written' = <<>>
    /\ UNCHANGED <<origin, opos, insertions, registered, insert_idx, ipos,
                   input_index, touched, short, interrupted, drained>>
    /\ UNCHANGED textVars

Step == GapRead \/ EmitRead \/ TailRead \/ Write

Next ==
    \/ \E position \in Positions :
         \E source \in Sources(Len(registered) + 1) : Insert(position, source)
    \/ Execute
    \/ GapRead
    \/ EmitRead
    \/ TailRead
    \/ Write

Spec == Init /\ [][Next]_vars

\* execute is a synchronous loop: once called it keeps taking steps, and a
\* producer does not answer Interrupted for ever.
FairSpec == Spec /\ WF_vars(Step)

TypeOK ==
    /\ origin \in Origins
    /\ opos \in 0..Len(origin)
    /\ DOMAIN insertions \subseteq Positions
    /\ Len(registered) <= MaxInserts
    /\ pc \in {"build", "gap", "emit", "tail", "done", "failed"}
    /\ insert_idx \in Positions \cup {NoKey}
    /\ input_index \in 0..Len(origin)
    /\ Len(written) <= BUFFER_SIZE
    /\ result \in {"none", "Ok"} \cup IoErrors
    /\ raised \in {"none"} \cup IoErrors
    /\ short \in BOOLEAN
    /\ interrupted \in BOOLEAN

\* ---------------------------------------------------------------- text adapter
\* StringInserter (src/src/string_inserter.rs). A text is a sequence of
\* codepoints; a str is held as its UTF-8 bytes.

\* codepoints of the texts tried: 'A' (one byte) and U+00E9 (two bytes)
Codepoints == {65, 233}

\* the UTF-8 bytes of one codepoint
Utf8Encode(cp) ==
    IF cp < 128 THEN <<cp>>
    ELSE IF cp < 2048 THEN <<192 + (cp \div 64), 128 + (cp % 64)>>
    ELSE IF cp < 65536
    THEN <<224 + (cp \div 4096), 128 + ((cp \div 64) % 64), 128 + (cp % 64)>>
    ELSE <<240 + (cp \div 262144), 128 + ((cp \div 4096) % 64),
           128 + ((cp \div 64) % 64), 128 + (cp % 64)>>

\* mutant of AsBytes: each char is taken as one byte
RECURSIVE AsBytesOnePerChar(_)
AsBytesOnePerChar(text) ==
    IF text = <<>> THEN <<>>
    ELSE <<Head(text) % 256>> \o AsBytesOnePerChar(Tail(text))

\* string_inserter.rs:53, 55: str::as_bytes, the UTF-8 bytes of a text
RECURSIVE AsBytes(_)
AsBytes(text) ==
    IF text = <<>> THEN <<>> ELSE Utf8Encode(Head(text)) \o AsBytes(Tail(text))

IsCont(b) == b >= 128 /\ b <= 191

\* the codepoint a well-formed sequence starts with and its length in bytes;
\* len = 0 when the bytes do not start with a well-formed sequence (overlong
\* forms, surrogates and values past U+10FFFF are not well formed)
Utf8First(b) ==
    LET h == b[1] IN
    IF h < 128 THEN [len |-> 1, cp |-> h]
    ELSE IF h >= 194 /\ h <= 223 /\ Len(b) >= 2 /\ IsCont(b[2])
    THEN [len |-> 2, cp |-> (h - 192) * 64 + (b[2] - 128)]
    ELSE IF h >= 224 /\ h <= 239 /\ Len(b) >= 3 /\ IsCont(b[2]) /\ IsCont(b[3])
    THEN LET cp == (h - 224) * 4096 + (b[2] - 128) * 64 + (b[3] - 128)
         IN  IF cp >= 2048 /\ ~(cp >= 55296 /\ cp <= 57343)
             THEN [len |-> 3, cp |-> cp] ELSE [len |-> 0, cp |-> 0]
    ELSE IF h >= 240 /\ h <= 244 /\ Len(b) >= 4
            /\ IsCont(b[2]) /\ IsCont(b[3]) /\ IsCont(b[4])
    THEN LET cp == (h - 240) * 262144 + (b[2] - 128) * 4096
                     + (b[3] - 128) * 64 + (b[4] - 128)
         IN  IF cp >= 65536 /\ cp <= 1114111
             THEN [len |-> 4, cp |-> cp] ELSE [len |-> 0, cp |-> 0]
    ELSE [len |-> 0, cp |-> 0]

\* the text the bytes encode, or ok = FALSE when they are not UTF-8
RECURSIVE Utf8Decode(_)
Utf8Decode(b) ==
    IF b = <<>> THEN [ok |-> TRUE, text |-> <<>>]
    ELSE LET first == Utf8First(b) IN
         IF first.len = 0 THEN [ok |-> FALSE, text |-> <<>>]
         ELSE LET rest == Utf8Decode(Drop(b, first.len)) IN
              [ok |-> rest.ok,
               text |-> IF rest.ok THEN <<first.cp>> \o rest.text ELSE <<>>]

\* mutant of FromUtf8: the bytes are not validated (each becomes a char)
FromUtf8Unchecked(bytes) == [kind |-> "Ok", text |-> bytes]

\* string_inserter.rs:62: String::from_utf8(buffer).map_err(|e| e.into())
FromUtf8(bytes) ==
    IF Utf8Decode(bytes).ok
    THEN [kind |-> "Ok", text |-> Utf8Decode(bytes).text]
    ELSE [kind |-> "Utf8Error", text |-> <<>>]

\* the text origins tried: every text of at most MaxPos bytes
TextOrigins ==
    {t \in UNION {[1..n -> Codepoints] : n \in 0..MaxPos} :
        Len(AsBytes(t)) <= MaxPos}

\* the texts inserted: the empty text and the texts of one char
InsertTexts == {<<>>} \cup {<<c>> : c \in Codepoints}

\* byte offsets up to one past the end of the longest origin
TextPositions == 0..(MaxPos + 1)

\* string_inserter.rs:54-56: the inserts of the list, made in order
RECURSIVE InsertAll(_, _)
InsertAll(map, list) ==
    IF list = <<>> THEN map
    ELSE InsertAll(BTreeInsert(map, Head(list).position, AsBytes(Head(list).source)),
                   Tail(list))

\* the calls of Inserter::insert that StringInserter::execute makes
BytesOfList(list) ==
    [i \in DOMAIN list |->
        [position |-> list[i].position, source |-> AsBytes(list[i].source)]]

\* string_inserter.rs:33-38
TextInit ==
    /\ text_origin \in TextOrigins
    /\ text_insertions = <<>>
    /\ text_result = NoText
    /\ origin = <<>>
    /\ opos = 0
    /\ insertions = EmptyMap
    /\ registered = <<>>
    /\ pc = "text"
    /\ insert_idx = NoKey
    /\ ipos = 0
    /\ input_index = 0
    /\ written = <<>>
    /\ target = <<>>
    /\ result = "none"
    /\ raised = "none"
    /\ outcome = "none"
    /\ touched = [origin |-> FALSE, keys |-> {}, last |-> NoRead]
    /\ short = FALSE
    /\ interrupted = FALSE
    /\ drained = FALSE

\* string_inserter.rs:41-44
TextInsert(position, source) ==
    /\ pc = "text"
    /\ Len(text_insertions) < MaxInserts
    /\ text_insertions' =
           Append(text_insertions, [position |-> position, source |-> source])
    /\ UNCHANGED <<text_origin, text_result>>
    /\ UNCHANGED <<origin, opos, insertions, registered, pc, insert_idx, ipos,
                   input_index, written, target, result, raised, outcome,
                   touched, short, interrupted, drained>>

\* string_inserter.rs:49-56: the Inserter over the bytes of the origin and a
\* Cursor on an empty Vec, with every insertion of the list registered.
TextExecute ==
    /\ pc = "text"
    /\ origin' = AsBytes(text_origin)
    /\ insertions' = InsertAll(EmptyMap, text_insertions)
    /\ registered' = BytesOfList(text_insertions)
    /\ target' = <<>>
    /\ pc' = "build"
    /\ UNCHANGED textVars
    /\ UNCHANGED <<opos, insert_idx, ipos, input_index, written, result, raised,
                   outcome, touched, short, interrupted, drained>>

\* A read on a byte slice (<&[u8] as Read>::read) copies as much as the buffer
\* takes and never fails; a write on Cursor<&mut Vec<u8>> appends and never
\* fails. These are the producers and the sink of string_inserter.rs:53-55.
SliceGapRead == GapRead /\ outcome' \in {"Got", "Eof"} /\ ~short'

SliceEmitRead == EmitRead /\ outcome' \in {"Got", "Eof"} /\ ~short'

SliceTailRead == TailRead /\ outcome' \in {"Got", "Eof"} /\ ~short'

CursorWrite == Write /\ outcome' = "Written"

\* string_inserter.rs:57-62: an error of the Inserter is returned as IoError,
\* else the buffer is validated and returned as a String.
TextReturn ==
    /\ text_result = NoText
    /\ \/ /\ pc = "failed"
          /\ text_result' = [kind |-> "IoError", text |-> <<>>]
       \/ /\ pc = "done"
          /\ text_result' = FromUtf8(target)
    /\ UNCHANGED <<text_origin, text_insertions>>
    /\ UNCHANGED <<origin, opos, insertions, registered, pc, insert_idx, ipos,
                   input_index, written, target, result, raised, outcome,
                   touched, short, interrupted, drained>>

TextNext ==
    \/ \E position \in TextPositions :
         \E source \in InsertTexts : TextInsert(position, source)
    \/ TextExecute
    \/ Execute
    \/ SliceGapRead
    \/ SliceEmitRead
    \/ SliceTailRead
    \/ CursorWrite
    \/ TextReturn

TextSpec == TextInit /\ [][TextNext]_vars

\* ---------------------------------------------------------------- resuming origin
\* lib.rs:20: the origin is any R: Read. Ok(0) from a reader does not bind its
\* later reads: a file that is appended to, or a pipe that gets more data,
\* returns bytes again after it returned Ok(0). OriginGrows is the arrival of
\* one more byte at the origin while execute runs.
OriginGrows ==
    /\ pc \in {"gap", "emit", "tail"}
    /\ Len(origin) < MaxOrigin
    /\ origin' = OriginOf(Len(origin) + 1)
    /\ UNCHANGED <<opos, insertions, registered, pc, insert_idx, ipos,
                   input_index, written, target, result, raised, outcome,
                   touched, short, interrupted, drained>>
    /\ UNCHANGED textVars

ResumeNext == Next \/ OriginGrows

ResumeSpec == Init /\ [][ResumeNext]_vars

\* ---------------------------------------------------------------- long producers
\* Producers that hold about one buffer of bytes, so that BUFFER_SIZE decides
\* how much a read takes: an origin and one insertion, as byte slices, with a
\* Cursor as the sink.
ChunkLens(extra) == (BUFFER_SIZE - 1)..(BUFFER_SIZE + extra)

ChunkBytes(call, len) == [i \in 1..len |-> (16 * call + i) % 256]

ChunkPositions == {0} \cup ChunkLens(MaxPos)

\* lib.rs:23-29
ChunkInit ==
    /\ origin \in {ChunkBytes(0, len) : len \in ChunkLens(MaxOrigin)}
    /\ opos = 0
    /\ insertions = EmptyMap
    /\ registered = <<>>
    /\ pc = "build"
    /\ insert_idx = NoKey
    /\ ipos = 0
    /\ input_index = 0
    /\ written = <<>>
    /\ target = <<>>
    /\ result = "none"
    /\ raised = "none"
    /\ outcome = "none"
    /\ touched = [origin |-> FALSE, keys |-> {}, last |-> NoRead]
    /\ short = FALSE
    /\ interrupted = FALSE
    /\ drained = FALSE
    /\ text_origin = <<>>
    /\ text_insertions = <<>>
    /\ text_result = NoText

\* lib.rs:31-34, called once
ChunkInsert(position, source) == registered = <<>> /\ Insert(position, source)

ChunkNext ==
    \/ \E position \in ChunkPositions :
         \E len \in ChunkLens(MaxInsLen) : ChunkInsert(position, ChunkBytes(1, len))
    \/ Execute
    \/ SliceGapRead
    \/ SliceEmitRead
    \/ SliceTailRead
    \/ CursorWrite

ChunkSpec == ChunkInit /\ [][ChunkNext]_vars

\* ---------------------------------------------------------------- call order
\* Insertions whose contents do not depend on when they are registered: the
\* source registered at an offset is named after the offset, so the same
\* insertions can be registered in any order. Offsets are pairwise distinct.
OrderInsert(position, source) ==
    /\ position \notin DOMAIN insertions
    /\ Insert(position, source)

OrderNext ==
    \/ \E position \in Positions :
         \E source \in Sources(position + 1) : OrderInsert(position, source)
    \/ Execute
    \/ SliceGapRead
    \/ SliceEmitRead
    \/ SliceTailRead
    \/ CursorWrite

OrderSpec == Init /\ [][OrderNext]_vars

\* ---------------------------------------------------------------- reference
\* What the claims compare the sink with. A schedule is a sequence of
\* [position, source] entries in the order they are to be emitted.

IsPrefix(s, t) == Len(s) <= Len(t) /\ SubSeq(t, 1, Len(s)) = s

\* block occurs in t as one contiguous run
IsBlockOf(block, t) ==
    \E i \in 0..(Len(t) - Len(block)) : SubSeq(t, i + 1, i + Len(block)) = block

Range(s) == {s[i] : i \in DOMAIN s}

RECURSIVE Concat(_)
Concat(sched) ==
    IF sched = <<>> THEN <<>> ELSE Head(sched).source \o Concat(Tail(sched))

RECURSIVE SumLen(_)
SumLen(sched) ==
    IF sched = <<>> THEN 0 ELSE Len(Head(sched).source) + SumLen(Tail(sched))

\* the entries of reg registered at offset p, in registration order
AtOffset(reg, p) == SelectSeq(reg, LAMBDA e : e.position = p)

\* ascending offset, ties in registration order
RECURSIVE ByOffset(_, _)
ByOffset(reg, p) ==
    IF p > MaxPos THEN <<>> ELSE AtOffset(reg, p) \o ByOffset(reg, p + 1)

StableSchedule(reg) == ByOffset(reg, 0)

\* the entries the map holds, in key order
RECURSIVE MapSchedule(_, _)
MapSchedule(map, after) ==
    IF KeysAfter(map, after) = {} THEN <<>>
    ELSE LET k == MinOf(KeysAfter(map, after))
         IN  <<[position |-> k, source |-> map[k]]>> \o MapSchedule(map, k)

\* The contract of execute: origin[prev .. min(o, L)) then the insertion at o,
\* for each entry in turn, then the rest of the origin; prev counts origin
\* bytes only.
RECURSIVE Contract(_, _, _)
Contract(orig, prev, sched) ==
    IF sched = <<>> THEN Drop(orig, prev)
    ELSE LET upto == Max(prev, Min(Head(sched).position, Len(orig)))
         IN  SubSeq(orig, prev + 1, upto) \o Head(sched).source
                 \o Contract(orig, upto, Tail(sched))

DistinctOffsets(reg) ==
    \A i, j \in DOMAIN reg : i # j => reg[i].position # reg[j].position

Terminated == pc \in {"done", "failed"}

\* ---------------------------------------------------------------- claims

\* C1: with pairwise distinct offsets and no failing read or write, execute
\* returns Ok and the sink holds origin[0 .. min(o1,L)), the insertion at o1,
\* then for each next offset in ascending order origin[prev .. min(oi,L)) and
\* the insertion at oi, then the rest of the origin; prev counts origin bytes
\* only.
C1_DistinctOffsetsContract ==
    (Terminated /\ raised = "none" /\ DistinctOffsets(registered)) =>
        /\ result = "Ok"
        /\ target = Contract(origin, 0, StableSchedule(registered))

\* two insertions registered in descending offset order, the lower one
\* preceded by a gap, the higher one inside the origin or at its end
C1_Witness ==
    /\ pc = "done" /\ result = "Ok"
    /\ Len(registered) = 2
    /\ registered[2].position >= 1
    /\ registered[1].position > registered[2].position
    /\ registered[1].position <= Len(origin)
    /\ registered[1].source # <<>> /\ registered[2].source # <<>>

\* C2: insertions registered at one offset are all emitted in full,
\* consecutively and in registration order, with no origin byte between them.
C2_SameOffsetAllEmitted ==
    pc = "done" =>
        \A p \in Positions :
            Len(AtOffset(registered, p)) >= 2 =>
                IsBlockOf(Concat(AtOffset(registered, p)), target)

\* C3: after a successful execute every registered insertion is in the sink
\* as one contiguous block in its original order, and the sink is as long as
\* the origin and all registered insertions together.
C3_InsertionsPreserved ==
    pc = "done" =>
        /\ \A i \in DOMAIN registered : IsBlockOf(registered[i].source, target)
        /\ Len(target) = Len(origin) + SumLen(registered)

\* the bytes of the registered insertions
InsertionBytes == UNION {Range(registered[i].source) : i \in DOMAIN registered}

\* C4: after a successful execute, for any schedule, the sink without the
\* insertion bytes is the origin: each origin byte once, in order.
C4_OriginOnceInOrder ==
    pc = "done" =>
        SelectSeq(target, LAMBDA b : b \notin InsertionBytes) = origin

\* a repeated offset inside the origin, with origin bytes on both sides
C4_Witness ==
    /\ pc = "done"
    /\ Len(registered) = 2
    /\ registered[1].position = registered[2].position
    /\ registered[1].position >= 1
    /\ registered[1].position < Len(origin)
    /\ registered[2].source # <<>>

AllPastEnd(reg) == \A i \in DOMAIN reg : reg[i].position >= Len(origin)

\* C5: when every offset is at or past the end of the origin and the offsets
\* differ, execute raises no error of its own and the sink holds the whole
\* origin followed by the insertions in ascending offset order.
C5_PastEnd ==
    (Terminated /\ raised = "none" /\ AllPastEnd(registered)
        /\ DistinctOffsets(registered)) =>
        /\ result = "Ok"
        /\ target = origin \o Concat(StableSchedule(registered))

\* two insertions past the end of a non-empty origin, registered in
\* descending offset order
C5_Witness ==
    /\ pc = "done" /\ result = "Ok"
    /\ origin # <<>>
    /\ Len(registered) = 2
    /\ registered[2].position > Len(origin)
    /\ registered[1].position > registered[2].position
    /\ registered[1].source # <<>> /\ registered[2].source # <<>>

\* C6: with no insert call before execute, the sink holds the origin bytes.
C6_Identity ==
    (pc = "done" /\ registered = <<>>) => target = origin

\* an origin of several bytes copied in more than one read
C6_Witness ==
    /\ pc = "done" /\ result = "Ok"
    /\ registered = <<>>
    /\ Len(origin) >= 2
    /\ short

\* C7: once a producer has raised an error other than Interrupted, or the
\* sink has raised one, execute has returned that error, issues no further
\* read or write, and has read no insertion scheduled after the current one.
C7_FailureStops ==
    raised # "none" =>
        /\ pc = "failed"
        /\ result = raised
        /\ ~ENABLED Step
        /\ touched.keys \subseteq {k \in DOMAIN insertions : k <= insert_idx}

\* an insertion fails after bytes were emitted, a later one is still scheduled
C7_Witness ==
    /\ pc = "failed"
    /\ raised = "InsertionReadError"
    /\ target # <<>>
    /\ KeysAfter(insertions, insert_idx) # {}

\* what the run writes when nothing fails: the contract over the entries the
\* map holds
Splice == Contract(origin, 0, MapSchedule(insertions, NoKey))

\* C8, as stated: when execute fails, the sink holds exactly what it held
\* before the failing operation, a prefix of what the run would have written.
C8_SinkAsBeforeFailure ==
    [][(pc # "failed" /\ pc' = "failed") =>
          (target' = target /\ IsPrefix(target', Splice))]_vars

\* C8, amended: when execute fails, the sink holds what it held before the
\* failing operation, followed, only when that operation is a write_all, by
\* the bytes of the chunk the sink accepted before failing (a proper prefix of
\* the chunk, possibly empty); this is a prefix of what the run would have
\* written, and it does not change afterwards.
C8_SinkKeepsWrittenPrefix ==
    [][/\ (pc # "failed" /\ pc' = "failed") =>
            /\ IF raised' = "WriteError"
               THEN \E k \in 0..(Len(written) - 1) :
                        target' = target \o SubSeq(written, 1, k)
               ELSE target' = target
            /\ IsPrefix(target', Splice)
       /\ pc = "failed" => target' = target]_vars

\* a whole origin of two bytes read at once, the write_all of it failing after
\* the sink accepted the first byte
C8_Witness ==
    /\ pc = "failed"
    /\ raised = "WriteError"
    /\ registered = <<>>
    /\ ~short
    /\ Len(origin) = 2
    /\ Len(target) = 1

\* C9: the sink after a successful execute is a function of the schedule and
\* of the producers' bytes: however the reads are chunked, it is what the run
\* with every read as large as possible writes.
C9_ChunkingIndependent ==
    pc = "done" => target = Splice

\* some read was short, with an insertion of several bytes scheduled at the
\* end of a gap of several bytes
C9_Witness ==
    /\ pc = "done" /\ result = "Ok"
    /\ short
    /\ \E k \in DOMAIN insertions : k >= 2 /\ k <= Len(origin) /\ Len(insertions[k]) >= 2

\* C10: a read that returns Interrupted writes nothing and counts no progress,
\* and the same read is issued again; a run whose producers are interrupted
\* but do not fail returns Ok with the sink of the uninterrupted run, and
\* execute, once called, returns.
C10_InterruptedRetried ==
    /\ [][outcome' = "Interrupted" =>
            /\ pc' = pc
            /\ UNCHANGED <<target, written, input_index, opos, ipos,
                           insert_idx, result, raised>>]_vars
    /\ []((Terminated /\ interrupted /\ raised = "none") =>
            (result = "Ok" /\ target = Splice))
    /\ (pc # "build") ~> Terminated

\* a run with an insertion that was interrupted and returned Ok
C10_Witness ==
    /\ pc = "done" /\ result = "Ok"
    /\ interrupted
    /\ registered # <<>>
    /\ Len(target) >= 2

\* the byte offsets at which a codepoint of the text starts or the text ends
Boundaries(text) == {Len(AsBytes(SubSeq(text, 1, n))) : n \in 0..Len(text)}

\* the byte offsets strictly inside a multi-byte codepoint of the text
SplitOffsets(text) == (0..Len(AsBytes(text))) \ Boundaries(text)

TextReturned == text_result # NoText

\* C11, as stated: in the text adapter, when some registered insertion has its
\* offset strictly inside a multi-byte codepoint of the origin, the splice
\* succeeds and execute returns Utf8Error, never Ok.
C11_SplitOffsetIsNotText ==
    (TextReturned /\ \E i \in DOMAIN text_insertions :
                        text_insertions[i].position \in SplitOffsets(text_origin)) =>
        (result = "Ok" /\ text_result.kind = "Utf8Error")

\* entry i is the last one registered at its offset: the one the map retains
RetainedEntry(list, i) ==
    \A j \in DOMAIN list : j > i => list[j].position # list[i].position

\* C11, amended: when the insertion retained at an offset strictly inside a
\* multi-byte codepoint of the origin (the last one registered there) is a
\* non-empty text, the splice succeeds and execute returns Utf8Error, never Ok.
C11_SplitByNonEmptyIsNotText ==
    (TextReturned /\ \E i \in DOMAIN text_insertions :
                        /\ text_insertions[i].position \in SplitOffsets(text_origin)
                        /\ text_insertions[i].source # <<>>
                        /\ RetainedEntry(text_insertions, i)) =>
        (result = "Ok" /\ text_result.kind = "Utf8Error")

\* a two-byte char of the origin split by a non-empty text, after a one-byte
\* char
C11_Witness ==
    /\ text_result.kind = "Utf8Error"
    /\ Len(text_origin) >= 2
    /\ \E i \in DOMAIN text_insertions :
          /\ text_insertions[i].position \in SplitOffsets(text_origin)
          /\ text_insertions[i].position >= 2
          /\ text_insertions[i].source # <<>>

AllOnBoundaries ==
    \A i \in DOMAIN text_insertions :
        \/ text_insertions[i].position \in Boundaries(text_origin)
        \/ text_insertions[i].position >= Len(AsBytes(text_origin))

\* C12: in the text adapter, when every offset is on a codepoint boundary of
\* the origin or at or past its end, execute returns Ok with a text whose
\* UTF-8 encoding is the byte-level splice of the origin and the insertions.
C12_BoundaryOffsetsRoundTrip ==
    (TextReturned /\ AllOnBoundaries) =>
        /\ text_result.kind = "Ok"
        /\ AsBytes(text_result.text) = target
        /\ target = Contract(AsBytes(text_origin), 0,
                             MapSchedule(InsertAll(EmptyMap, text_insertions), NoKey))

\* a two-byte char inserted between two chars of an origin that holds a
\* two-byte char, and a second insertion past the end
C12_Witness ==
    /\ text_result.kind = "Ok"
    /\ 233 \in Range(text_origin)
    /\ Len(text_insertions) = 2
    /\ text_insertions[1].position > Len(AsBytes(text_origin))
    /\ text_insertions[2].position >= 1
    /\ text_insertions[2].position < Len(AsBytes(text_origin))
    /\ text_insertions[2].source = <<233>>

\* the bytes a step appends to the sink
Appended == Drop(target', Len(target))

\* C13: once the origin has returned Eof in the gap loop it is treated as
\* drained: while insertions remain, no origin byte is forwarded to the sink,
\* whatever the origin would return when read again.
C13_DrainedOriginStaysDrained ==
    [][(drained /\ pc \in {"gap", "emit"}) =>
          Range(Appended) \cap Range(origin') = {}]_vars

\* C14: in the schedule loop the origin bytes consumed are the bytes forwarded
\* (input_index), never more than the offset being filled, so that
\* insert_idx - input_index does not underflow; when the insertion at offset o
\* is being emitted, exactly min(o, L) origin bytes have been consumed.
C14_NoOverRead ==
    pc \in {"gap", "emit"} =>
        /\ opos = input_index
        /\ input_index <= insert_idx
        /\ pc = "emit" => opos = Min(insert_idx, Len(origin))

\* an insertion inside the origin being emitted, origin bytes left unread
C14_Witness ==
    /\ pc = "emit"
    /\ ipos >= 1
    /\ insert_idx >= 1
    /\ insert_idx < Len(origin)
    /\ opos = insert_idx

\* C15: at most one chunk is in flight. A read is issued only when no chunk is
\* waiting and leaves 1..BUFFER_SIZE bytes; the step after it is the write_all
\* of exactly those bytes, with no read in between; write_all is called with
\* nothing else, so never with zero bytes nor with more than one chunk.
C15_OneChunkInFlight ==
    [][/\ Len(written') <= BUFFER_SIZE
       /\ (written' # written /\ written' # <<>>) =>
             (written = <<>> /\ target' = target)
       /\ written # <<>> =>
             /\ written' = <<>>
             /\ opos' = opos /\ ipos' = ipos /\ insert_idx' = insert_idx
             /\ target' = target \o written \/ raised' = "WriteError"
       /\ (target' # target \/ (raised' = "WriteError" /\ raised = "none")) =>
             written # <<>>]_vars

\* a full buffer read from an insertion that holds more than one buffer
C15_Witness ==
    /\ pc = "emit"
    /\ Len(written) = BUFFER_SIZE
    /\ Len(insertions[insert_idx]) > BUFFER_SIZE

\* the calls of reg made in the order f
Reordered(reg, f) == [i \in DOMAIN reg |-> reg[f[i]]]

\* C16: with pairwise distinct offsets the sink does not depend on the order
\* of the insert calls: what a successful run wrote is what the contract gives
\* for the same calls made in any other order.
C16_OrderIndependent ==
    (pc = "done" /\ DistinctOffsets(registered)) =>
        \A f \in Permutations(DOMAIN registered) :
            target = Contract(origin, 0, StableSchedule(Reordered(registered, f)))

\* two non-empty insertions registered higher offset first, and written
C16_Witness ==
    /\ pc = "done"
    /\ Len(registered) = MaxInserts
    /\ registered[1].position > registered[2].position
    /\ registered[1].position <= Len(origin)
    /\ Len(target) > Len(origin) + 1

\* C17: producers are read lazily and in phase order. Nothing is read or
\* written before execute; a read in the emitting phase is a read of the
\* insertion the for loop is at, first read in that phase; the for loop leaves
\* an insertion only on its Eof and only for a greater offset or the tail, so
\* no insertion is read again; gap and tail reads are reads of the origin, and
\* the phases follow build, (gap, emit)*, tail, done.
C17_LazyPhaseOrder ==
    /\ [](pc = "build" =>
            /\ touched = [origin |-> FALSE, keys |-> {}, last |-> NoRead]
            /\ target = <<>> /\ written = <<>> /\ opos = 0 /\ ipos = 0)
    /\ [][/\ pc = "build" =>
                /\ pc' \in {"build", "gap", "emit", "tail"}
                /\ touched' = touched /\ target' = target /\ written' = written
          /\ pc = "gap" =>
                /\ pc' \in {"gap", "emit", "failed"}
                /\ touched'.last = OriginRead
                /\ insert_idx' = insert_idx /\ ipos' = ipos
          /\ pc = "emit" =>
                /\ pc' \in {"gap", "emit", "tail", "failed"}
                /\ touched'.last = InsertionRead(insert_idx)
                /\ opos' = opos
                /\ (insert_idx' # insert_idx \/ pc' \in {"gap", "tail"}) =>
                      /\ outcome' = "Eof"
                      /\ ipos = Len(insertions[insert_idx])
                      /\ insert_idx' >= insert_idx
                      /\ pc' = "tail" <=> insert_idx' = insert_idx
                      /\ pc' = "tail" => KeysAfter(insertions, insert_idx) = {}
          /\ touched'.last # touched.last /\ touched'.last.from = "insertion" =>
                /\ pc = "emit"
                /\ insert_idx \notin touched.keys
                /\ ipos = 0
          /\ pc = "tail" =>
                /\ pc' \in {"tail", "done", "failed"}
                /\ touched'.last = OriginRead
                /\ touched'.keys = touched.keys
                /\ insert_idx' = insert_idx /\ ipos' = ipos
                /\ pc' = "done" => (outcome' = "Eof" /\ opos = Len(origin))
          /\ pc \in {"done", "failed"} => UNCHANGED vars]_vars

\* every insertion has been read, after a gap, and the tail of the origin is
\* on its way to the sink
C17_Witness ==
    /\ pc = "tail"
    /\ written # <<>>
    /\ touched.last = OriginRead
    /\ touched.keys = DOMAIN insertions
    /\ Cardinality(DOMAIN insertions) >= 2
    /\ \A k \in DOMAIN insertions : insertions[k] # <<>>
    /\ \E k \in DOMAIN insertions : k >= 1

\* the insertion bytes execute has still to read
UnreadInsertions ==
    SumLen(MapSchedule(insertions, insert_idx))
        + (IF pc \in {"gap", "emit"} THEN Len(insertions[insert_idx]) - ipos ELSE 0)

\* the loops execute has still to leave
LoopsLeft ==
    IF pc = "tail" THEN 1
    ELSE 2 * Cardinality(KeysAfter(insertions, insert_idx))
             + (IF pc = "gap" THEN 3 ELSE 2)

\* a bound on the reads and writes execute can still make without a retry
Measure ==
    IF Terminated THEN 0
    ELSE 2 * ((Len(origin) - opos) + UnreadInsertions) + LoopsLeft
             + (IF written = <<>> THEN 0 ELSE 1)

\* the read that was interrupted is issued again and is interrupted again
RetryInterrupted ==
    /\ Step
    /\ outcome' = "Interrupted"
    /\ UNCHANGED <<pc, target, written, opos, ipos, insert_idx, input_index,
                   result, raised, touched>>

\* a read answered with bytes or Eof, or a write_all the sink accepts
Progress == Step /\ outcome' \in {"Got", "Eof", "Written"}

\* C18: there is no retry cap. After a read returned Interrupted, however many
\* times in a row, execute has not returned, has no chunk to write, and the
\* same read on the same producer can be interrupted again; an interrupted
\* read writes nothing. Conversely a run of execute that has not returned can
\* always go on with a read or write that is not interrupted, and each such
\* step lowers a natural-number measure, so with finite producers, finitely
\* many Interrupted in a row and a sink that does not block, execute returns.
C18_NoRetryCap ==
    /\ [](outcome = "Interrupted" =>
            /\ ~Terminated
            /\ written = <<>>
            /\ ENABLED RetryInterrupted)
    /\ [][outcome' = "Interrupted" => (target' = target /\ pc' = pc)]_vars
    /\ [](pc \in {"gap", "emit", "tail"} => ENABLED Progress)
    /\ [][(pc \in {"gap", "emit", "tail"} /\ outcome' # "Interrupted") =>
            Measure' < Measure]_vars

\* an insertion producer was interrupted with bytes of it already in the sink
\* and bytes of it still to read
C18_Witness ==
    /\ outcome = "Interrupted"
    /\ pc = "emit"
    /\ ipos >= 1
    /\ ipos < Len(insertions[insert_idx])
    /\ target # <<>>

====
